---- MODULE Spec2Model ----
(***************************************************************************)
(* EV analytics dashboard: the header normalizer (etl/column_mapper.py),   *)
(* the data cleaner (etl/data_cleaner.py), the MySQL uploader              *)
(* (etl/mysql_uploader.py) and the script run of streamlit_app.py.         *)
(*                                                                         *)
(* A column label is a sequence of one-character strings, so that          *)
(* str.lower() and str.replace() are computed character by character.      *)
(* A cell is a record [k, n, s]: k = "na" is a missing value (None/NaN),   *)
(* k = "num" a number n, k = "str" a text s.  Numbers are kept in units of *)
(* one half, so that the median of an even number of whole values          *)
(* (the mean of the two middle ones) stays an integer.                     *)
(* A dataset (DataFrame) is a sequence of columns [name, dtype, vals].     *)
(***************************************************************************)
EXTENDS Integers, Sequences, FiniteSets, TLC

VARIABLES
    df,          \* the DataFrame the pipeline works on (mutated in place)
    raw,         \* the DataFrame as it was loaded, before any operation
    prev,        \* the DataFrame as it was before the last operation
    pc,          \* position of the run
    raised,      \* the exception raised by the last operation, "" if none
    table,       \* the rows of the MySQL table ev_data
    wpc,         \* position of every writer inside upload_to_mysql
    wdf,         \* the dataset every writer is uploading
    ncalls,      \* number of upload_to_mysql calls started so far
    last,        \* the dataset of the last INSERT that was committed
    file,        \* st.file_uploader returned a file
    HAS_ETL,     \* the etl package was imported
    save_db,     \* the "Save to Database" button was pressed for this run
    segment_filter,       \* the cells selected in the Segment multiselect
    manufacturer_filter,  \* the cells selected in the Manufacturer multiselect
    filtered_df, \* the filtered DataFrame
    upload_result,        \* "none", "ok" or "raised": how upload_to_mysql ended
    sidebar,     \* the messages shown in the sidebar, in order
    page         \* the elements shown on the page, in order

vars == <<df, raw, prev, pc, raised, table, wpc, wdf, ncalls, last, file, HAS_ETL,
          save_db, segment_filter, manufacturer_filter, filtered_df, upload_result,
          sidebar, page>>

pipeline_vars == <<df, raw, prev, pc, raised>>

upload_vars == <<table, wpc, wdf, ncalls, last>>

dashboard_vars == <<file, HAS_ETL, save_db, segment_filter, manufacturer_filter,
                    filtered_df, upload_result, sidebar, page>>

----------------------------------------------------------------------------
(* Bounds of the model *)

\* largest number of columns of a dataset given to map_columns
MaxCols == 2

\* largest number of rows of a dataset given to clean_data
MaxRows == 2

\* number of concurrent writers (dashboard sessions saving to the database)
NumWriters == 2

\* largest number of upload_to_mysql calls over all writers
MaxCalls == 3

\* largest number of rows of an uploaded dataset
MaxUploadRows == 2

----------------------------------------------------------------------------
(* Cells *)

Na == [k |-> "na", n |-> 0, s |-> ""]

Num(x) == [k |-> "num", n |-> x, s |-> ""]

Str(t) == [k |-> "str", n |-> 0, s |-> t]

isna(c) == c.k = "na"

----------------------------------------------------------------------------
(* str.lower() and str.replace() on labels *)

UpperCase == <<"A", "B", "C", "D", "E", "F", "G", "H", "I", "J", "K", "L", "M",
               "N", "O", "P", "Q", "R", "S", "T", "U", "V", "W", "X", "Y", "Z">>

LowerCase == <<"a", "b", "c", "d", "e", "f", "g", "h", "i", "j", "k", "l", "m",
               "n", "o", "p", "q", "r", "s", "t", "u", "v", "w", "x", "y", "z">>

lower_char(c) ==
    IF \E i \in 1..Len(UpperCase) : UpperCase[i] = c
    THEN LowerCase[CHOOSE i \in 1..Len(UpperCase) : UpperCase[i] = c]
    ELSE c

lower(s) == [i \in 1..Len(s) |-> lower_char(s[i])]

\* s.replace(old, new) for a one-character old
RECURSIVE replace(_, _, _)
replace(s, old, new) ==
    IF s = <<>> THEN <<>>
    ELSE (IF Head(s) = old THEN new ELSE <<Head(s)>>) \o replace(Tail(s), old, new)

----------------------------------------------------------------------------
(* column_mapper.map_columns *)

\* the synonym table, in the order of the dict literal: <<key, canonical name>>
mapping ==
    << << <<"v", "e", "h", "i", "c", "l", "e", "i", "d">>,
          <<"V", "e", "h", "i", "c", "l", "e", "I", "D">> >>,
       << <<"b", "r", "a", "n", "d">>,
          <<"M", "a", "n", "u", "f", "a", "c", "t", "u", "r", "e", "r">> >>,
       << <<"m", "a", "n", "u", "f", "a", "c", "t", "u", "r", "e", "r">>,
          <<"M", "a", "n", "u", "f", "a", "c", "t", "u", "r", "e", "r">> >>,
       << <<"m", "o", "d", "e", "l">>,
          <<"M", "o", "d", "e", "l">> >>,
       << <<"s", "e", "g", "m", "e", "n", "t">>,
          <<"S", "e", "g", "m", "e", "n", "t">> >>,
       << <<"b", "a", "t", "t", "e", "r", "y">>,
          <<"B", "a", "t", "t", "e", "r", "y", "k", "W", "h">> >>,
       << <<"b", "a", "t", "t", "e", "r", "y", "_", "s", "i", "z", "e">>,
          <<"B", "a", "t", "t", "e", "r", "y", "k", "W", "h">> >>,
       << <<"r", "a", "n", "g", "e">>,
          <<"R", "a", "n", "g", "e", "k", "m">> >>,
       << <<"p", "r", "i", "c", "e">>,
          <<"E", "x", "S", "h", "o", "w", "r", "o", "o", "m", "P", "r", "i", "c", "e", "I", "N", "R">> >>,
       << <<"c", "o", "s", "t">>,
          <<"O", "p", "e", "r", "a", "t", "i", "n", "g", "C", "o", "s", "t", "I", "N", "R">> >>,
       << <<"r", "e", "v", "e", "n", "u", "e">>,
          <<"R", "e", "v", "e", "n", "u", "e", "I", "N", "R">> >>,
       << <<"c", "i", "t", "y">>,
          <<"C", "i", "t", "y">> >>,
       << <<"u", "s", "a", "g", "e">>,
          <<"U", "s", "a", "g", "e", "T", "y", "p", "e">> >> >>

\* key = col.lower().replace(" ", "").replace("_", "")
key_of(col) == replace(replace(lower(col), " ", <<>>), "_", <<>>)

\* key in mapping
in_mapping(key) == \E i \in 1..Len(mapping) : mapping[i][1] = key

\* mapping[key] with the entry "price" mistyped as "price": "Cost"
mapping_get_price_cost(key) ==
    IF key = <<"p", "r", "i", "c", "e">>
    THEN <<"C", "o", "s", "t">>
    ELSE LET hits == {i \in 1..Len(mapping) : mapping[i][1] = key}
         IN  mapping[CHOOSE i \in hits : \A j \in hits : j <= i][2]

\* mapping[key]: of two equal keys of a dict literal the later one stands
mapping_get(key) ==
    LET hits == {i \in 1..Len(mapping) : mapping[i][1] = key}
    IN  mapping[CHOOSE i \in hits : \A j \in hits : j <= i][2]

columns(d) == [i \in 1..Len(d) |-> d[i].name]

\* the dict keyed by the normalized key instead of the column's own label
rename_cols_by_key(d) ==
    [key \in {key_of(d[i].name) : i \in {j \in 1..Len(d) : in_mapping(key_of(d[j].name))}}
        |-> mapping_get(key)]

\* the dict built by the loop over df.columns
rename_cols(d) ==
    [col \in {d[i].name : i \in {j \in 1..Len(d) : in_mapping(key_of(d[j].name))}}
        |-> mapping_get(key_of(col))]

\* a rename under which the later of two columns given the same new label wins:
\* the earlier ones are dropped
rename_last_wins(d, rc) ==
    LET renamed == [i \in 1..Len(d) |->
                       [d[i] EXCEPT !.name = IF d[i].name \in DOMAIN rc
                                             THEN rc[d[i].name] ELSE d[i].name]]
        kept == SelectSeq([i \in 1..Len(d) |-> i],
                          LAMBDA i : ~\E j \in (i + 1)..Len(d) :
                                         /\ d[i].name \in DOMAIN rc
                                         /\ d[j].name \in DOMAIN rc
                                         /\ renamed[j].name = renamed[i].name)
    IN  [k \in 1..Len(kept) |-> renamed[kept[k]]]

\* df.rename(columns=rc, inplace=True): every label that is a key of rc is replaced
rename(d, rc) ==
    [i \in 1..Len(d) |->
        [d[i] EXCEPT !.name = IF d[i].name \in DOMAIN rc THEN rc[d[i].name] ELSE d[i].name]]

map_columns(d) == rename(d, rename_cols(d))

----------------------------------------------------------------------------
(* Inputs of the header normalizer *)

InputNames ==
    { <<"b", "r", "a", "n", "d">>,
      <<"B", "r", "a", "n", "d">>,
      <<"m", "a", "n", "u", "f", "a", "c", "t", "u", "r", "e", "r">>,
      <<"M", "a", "n", "u", "f", "a", "c", "t", "u", "r", "e", "r">>,
      <<"B", "a", "t", "t", "e", "r", "y", "_", "S", "i", "z", "e">>,
      <<"b", "a", "t", "t", "e", "r", "y", "_", "s", "i", "z", "e">>,
      <<"b", "a", "t", "t", "e", "r", "y">>,
      <<"B", "a", "t", "t", "e", "r", "y", " ", "k", "W", "h">>,
      <<"B", "a", "t", "t", "e", "r", "y", "k", "W", "h">>,
      <<"C", "O", "S", "T">>,
      <<"c", "o", "s", "t">>,
      <<"O", "p", "e", "r", "a", "t", "i", "n", "g", "_", "C", "o", "s", "t">>,
      <<"O", "p", "e", "r", "a", "t", "i", "n", "g", "C", "o", "s", "t", "I", "N", "R">>,
      <<"r", "a", "n", "g", "e">>,
      <<"R", "a", "n", "g", "e", "k", "m">>,
      <<"r", "e", "v", "e", "n", "u", "e">>,
      <<"R", "e", "v", "e", "n", "u", "e", "I", "N", "R">>,
      <<"V", "e", "h", "i", "c", "l", "e", "_", "I", "D">>,
      <<"V", "e", "h", "i", "c", "l", "e", "I", "D">>,
      <<"M", "o", "d", "e", "l">>,
      <<"S", "e", "g", "m", "e", "n", "t">>,
      <<"C", "i", "t", "y">>,
      <<"u", "s", "a", "g", "e">>,
      <<"U", "s", "a", "g", "e", "T", "y", "p", "e">>,
      <<"p", "r", "i", "c", "e">>,
      <<"E", "x", "S", "h", "o", "w", "r", "o", "o", "m", "P", "r", "i", "c", "e", "I", "N", "R">>,
      <<"P", "r", "o", "f", "i", "t", "I", "N", "R">>,
      <<"F", "o", "o">> }

\* a dataset of one row whose cell in column i is the number i
LabelledDataset(labels) ==
    [i \in 1..Len(labels) |-> [name |-> labels[i], dtype |-> "number", vals |-> <<Num(i)>>]]

SeqsUpTo(S, n) == UNION {[1..m -> S] : m \in 1..n}

MapInputs == {LabelledDataset(l) : l \in SeqsUpTo(InputNames, MaxCols)}

----------------------------------------------------------------------------
(* data_cleaner.clean_data *)

RevenueINR == <<"R", "e", "v", "e", "n", "u", "e", "I", "N", "R">>

OperatingCostINR == <<"O", "p", "e", "r", "a", "t", "i", "n", "g", "C", "o", "s", "t", "I", "N", "R">>

ProfitINR == <<"P", "r", "o", "f", "i", "t", "I", "N", "R">>

has_column(d, name) == \E i \in 1..Len(d) : d[i].name = name

\* df[name], for a label that occurs once (KeyError when it does not occur)
get_column(d, name) == d[CHOOSE i \in 1..Len(d) : d[i].name = name]

\* df[name] = col: an existing column is replaced where it stands, a new one is appended
set_column(d, name, col) ==
    IF has_column(d, name)
    THEN [i \in 1..Len(d) |-> IF d[i].name = name THEN [col EXCEPT !.name = name] ELSE d[i]]
    ELSE Append(d, [col EXCEPT !.name = name])

\* Series.fillna(value); filling with NaN leaves the missing cells missing
fillna(vals, value) == [i \in 1..Len(vals) |-> IF isna(vals[i]) THEN value ELSE vals[i]]

RECURSIVE sort_values(_)
sort_values(ns) ==
    IF ns = <<>> THEN <<>>
    ELSE LET m == CHOOSE i \in 1..Len(ns) : \A j \in 1..Len(ns) : ns[i] <= ns[j]
         IN  <<ns[m]>> \o sort_values(SubSeq(ns, 1, m - 1) \o SubSeq(ns, m + 1, Len(ns)))

\* Series.median(): missing cells are skipped; NaN when nothing is left
median(vals) ==
    LET present == SelectSeq(vals, LAMBDA c : ~isna(c))
        xs == sort_values([i \in 1..Len(present) |-> present[i].n])
        n == Len(xs)
    IN  IF n = 0 THEN Na
        ELSE IF n % 2 = 1 THEN Num(xs[(n + 1) \div 2])
        ELSE Num((xs[n \div 2] + xs[n \div 2 + 1]) \div 2)

\* the first loop filling with the empty string instead of "Unknown"
fill_object_columns_empty(d) ==
    [i \in 1..Len(d) |->
        IF d[i].dtype = "object"
        THEN [d[i] EXCEPT !.vals = fillna(d[i].vals, Str(""))]
        ELSE d[i]]

\* for col in df.select_dtypes(include="object"): df[col] = df[col].fillna("Unknown")
fill_object_columns(d) ==
    [i \in 1..Len(d) |->
        IF d[i].dtype = "object"
        THEN [d[i] EXCEPT !.vals = fillna(d[i].vals, Str("Unknown"))]
        ELSE d[i]]

\* for col in df.select_dtypes(include="number"): df[col] = df[col].fillna(df[col].median())
fill_number_columns(d) ==
    [i \in 1..Len(d) |->
        IF d[i].dtype = "number"
        THEN [d[i] EXCEPT !.vals = fillna(d[i].vals, median(d[i].vals))]
        ELSE d[i]]

\* the condition with "or" in place of "and"
has_profit_inputs_or(d) == has_column(d, RevenueINR) \/ has_column(d, OperatingCostINR)

\* "RevenueINR" in df.columns and "OperatingCostINR" in df.columns
has_profit_inputs(d) == has_column(d, RevenueINR) /\ has_column(d, OperatingCostINR)

\* the operands of the subtraction exchanged
sub_cell_swapped(a, b) == IF isna(a) \/ isna(b) THEN Na ELSE Num(b.n - a.n)

\* a - b on two cells of numerical columns: NaN when either is missing
sub_cell(a, b) == IF isna(a) \/ isna(b) THEN Na ELSE Num(a.n - b.n)

\* a - b on two columns raises TypeError when it meets a text cell
sub_raises(a, b) ==
    \E i \in 1..Len(a.vals) : a.vals[i].k = "str" \/ b.vals[i].k = "str"

\* a - b on two columns, row by row
sub_columns(a, b) ==
    [name |-> a.name,
     dtype |-> IF a.dtype = "number" /\ b.dtype = "number" THEN "number" ELSE "object",
     vals |-> [i \in 1..Len(a.vals) |-> sub_cell(a.vals[i], b.vals[i])]]

\* the DataFrame as clean_data leaves it, and the exception it raises ("" if none)
clean_data(d) ==
    LET filled == fill_number_columns(fill_object_columns(d))
    IN  IF has_profit_inputs(filled)
        THEN IF ~has_column(filled, RevenueINR) \/ ~has_column(filled, OperatingCostINR)
             THEN [df |-> filled, raised |-> "KeyError"]
             ELSE LET rev == get_column(filled, RevenueINR)
                      cost == get_column(filled, OperatingCostINR)
                  IN  IF sub_raises(rev, cost)
                      THEN [df |-> filled, raised |-> "TypeError"]
                      ELSE [df |-> set_column(filled, ProfitINR, sub_columns(rev, cost)),
                            raised |-> ""]
        ELSE [df |-> filled, raised |-> ""]

----------------------------------------------------------------------------
(* mysql_uploader.upload_to_mysql, one statement at a time.  A row of the  *)
(* table is [src, idx]: row idx of the dataset of upload number src.       *)

Writers == 1..NumWriters

NoDataset == [id |-> 0, n |-> 0]

\* the rows df.to_sql appends for a dataset
rows_of(d) == [k \in 1..d.n |-> [src |-> d.id, idx |-> k]]

\* conn.execute(text("DELETE FROM ev_data")); conn.commit()
delete_all(t) == <<>>

\* df.to_sql("ev_data", engine, if_exists="append", index=False)
to_sql(t, d) == t \o rows_of(d)

\* no upload is running and the table is empty
InitIdle ==
    /\ table = <<>>
    /\ wpc = [w \in Writers |-> "idle"]
    /\ wdf = [w \in Writers |-> NoDataset]
    /\ ncalls = 0
    /\ last = NoDataset

----------------------------------------------------------------------------
(* streamlit_app.py: one run of the script *)

Segment == <<"S", "e", "g", "m", "e", "n", "t">>

Manufacturer == <<"M", "a", "n", "u", "f", "a", "c", "t", "u", "r", "e", "r">>

Model == <<"M", "o", "d", "e", "l">>

BatterykWh == <<"B", "a", "t", "t", "e", "r", "y", "k", "W", "h">>

Rangekm == <<"R", "a", "n", "g", "e", "k", "m">>

\* the rename table of the fallback branch of process_data: <<label, new label>>
column_mapping ==
    << << <<"V", "e", "h", "i", "c", "l", "e", "_", "I", "D">>,
          <<"V", "e", "h", "i", "c", "l", "e", "I", "D">> >>,
       << <<"B", "a", "t", "t", "e", "r", "y", "_", "k", "W", "h">>,
          <<"B", "a", "t", "t", "e", "r", "y", "k", "W", "h">> >>,
       << <<"R", "a", "n", "g", "e", "_", "k", "m">>,
          <<"R", "a", "n", "g", "e", "k", "m">> >>,
       << <<"E", "x", "_", "S", "h", "o", "w", "r", "o", "o", "m", "_", "P", "r", "i", "c", "e", "_", "I", "N", "R">>,
          <<"P", "r", "i", "c", "e", "I", "N", "R">> >>,
       << <<"A", "v", "g", "_", "C", "h", "a", "r", "g", "i", "n", "g", "_", "T", "i", "m", "e", "_", "H", "o", "u", "r", "s">>,
          <<"C", "h", "a", "r", "g", "i", "n", "g", "T", "i", "m", "e", "H", "o", "u", "r", "s">> >>,
       << <<"E", "n", "e", "r", "g", "y", "_", "C", "o", "n", "s", "u", "m", "e", "d", "_", "k", "W", "h">>,
          <<"E", "n", "e", "r", "g", "y", "k", "W", "h">> >>,
       << <<"O", "p", "e", "r", "a", "t", "i", "n", "g", "_", "C", "o", "s", "t", "_", "I", "N", "R">>,
          <<"O", "p", "e", "r", "a", "t", "i", "n", "g", "C", "o", "s", "t", "I", "N", "R">> >>,
       << <<"R", "e", "v", "e", "n", "u", "e", "_", "I", "N", "R">>,
          <<"R", "e", "v", "e", "n", "u", "e", "I", "N", "R">> >>,
       << <<"U", "s", "a", "g", "e", "_", "T", "y", "p", "e">>,
          <<"U", "s", "a", "g", "e", "T", "y", "p", "e">> >>,
       << <<"C", "u", "s", "t", "o", "m", "e", "r", "_", "L", "o", "c", "a", "t", "i", "o", "n", "_", "T", "y", "p", "e">>,
          <<"L", "o", "c", "a", "t", "i", "o", "n", "T", "y", "p", "e">> >> >>

nrows(d) == IF d = <<>> THEN 0 ELSE Len(d[1].vals)

\* the rows of d at the indexes idx, in that order
take_rows(d, idx) ==
    [c \in 1..Len(d) |->
        [d[c] EXCEPT !.vals = [j \in 1..Len(idx) |-> d[c].vals[idx[j]]]]]

\* df.rename(columns=column_mapping): a renamed copy
rename_fallback(d) ==
    rename(d, [col \in {column_mapping[i][1] : i \in 1..Len(column_mapping)} |->
                  column_mapping[CHOOSE i \in 1..Len(column_mapping) :
                                     column_mapping[i][1] = col][2]])

\* df.dropna(subset=['Segment', 'Manufacturer'])
dropna(d) ==
    take_rows(d, SelectSeq([i \in 1..nrows(d) |-> i],
                           LAMBDA i : /\ ~isna(get_column(d, Segment).vals[i])
                                      /\ ~isna(get_column(d, Manufacturer).vals[i])))

\* the else branch of process_data; it works on a copy, so that the caller's
\* DataFrame is as it was when the branch raises
process_fallback(d) ==
    LET renamed == rename_fallback(d)
        needs_profit == ~has_column(renamed, ProfitINR)
        derived ==
            IF needs_profit
            THEN set_column(renamed, ProfitINR,
                            sub_columns(get_column(renamed, RevenueINR),
                                        get_column(renamed, OperatingCostINR)))
            ELSE renamed
    IN  IF needs_profit /\ (~has_column(renamed, RevenueINR)
                             \/ ~has_column(renamed, OperatingCostINR))
        THEN [df |-> d, raised |-> "KeyError"]
        ELSE IF needs_profit /\ sub_raises(get_column(renamed, RevenueINR),
                                           get_column(renamed, OperatingCostINR))
        THEN [df |-> d, raised |-> "TypeError"]
        ELSE IF ~has_column(derived, Segment) \/ ~has_column(derived, Manufacturer)
        THEN [df |-> d, raised |-> "KeyError"]
        ELSE [df |-> dropna(derived), raised |-> ""]

\* process_data(df): the caller's DataFrame afterwards and the exception raised
process_data(d, has_etl) ==
    IF has_etl THEN clean_data(map_columns(d)) ELSE process_fallback(d)

\* df[name].unique(), as a set of cells
unique(d, name) ==
    IF has_column(d, name)
    THEN {get_column(d, name).vals[i] : i \in 1..nrows(d)}
    ELSE {}

\* the filter setup tolerating an absent column (an empty list of options)
filter_setup_never_raises(d) == FALSE

\* df["Segment"] or df["Manufacturer"] raises KeyError when the column is absent
filter_setup_raises(d) == ~has_column(d, Segment) \/ ~has_column(d, Manufacturer)

\* df[name].isin(selected)[i]
isin(d, name, selected, i) ==
    has_column(d, name) /\ get_column(d, name).vals[i] \in selected

\* df[df["Segment"].isin(segment_filter) & df["Manufacturer"].isin(manufacturer_filter)]
apply_filters(d, seg, man) ==
    take_rows(d, SelectSeq([i \in 1..nrows(d) |-> i],
                           LAMBDA i : isin(d, Segment, seg, i)
                                      /\ isin(d, Manufacturer, man, i)))

\* upload_to_mysql(d) run alone: "ok", or the database refusing the connection or
\* the DELETE ("connect"), or refusing the INSERT after the DELETE was committed
upload_to_mysql(t, d, outcome) ==
    IF outcome = "ok" THEN [table |-> to_sql(delete_all(t), d), raised |-> ""]
    ELSE IF outcome = "connect" THEN [table |-> t, raised |-> "OperationalError"]
    ELSE [table |-> delete_all(t), raised |-> "OperationalError"]

\* the save without its own try/except: the exception of upload_to_mysql leaves
\* the block and reaches the handler of the whole run
save_handler_unguarded(has_etl, upload_raised) ==
    IF ~has_etl THEN [message |-> "info_no_database", raised |-> ""]
    ELSE IF upload_raised = "" THEN [message |-> "success", raised |-> ""]
    ELSE [message |-> "upload_error", raised |-> upload_raised]

\* the try/except around upload_to_mysql: the message for the sidebar, and the
\* exception that leaves the block
save_handler(has_etl, upload_raised) ==
    IF ~has_etl THEN [message |-> "info_no_database", raised |-> ""]
    ELSE IF upload_raised = "" THEN [message |-> "success", raised |-> ""]
    ELSE [message |-> "upload_error", raised |-> ""]

\* the elements the script renders after the save, in order, each with the
\* columns of filtered_df it reads
Elements ==
    << [kind |-> "card_total_vehicles", needs |-> {}],
       [kind |-> "card_total_revenue", needs |-> {RevenueINR}],
       [kind |-> "card_total_profit", needs |-> {ProfitINR}],
       [kind |-> "card_average_battery", needs |-> {BatterykWh}],
       [kind |-> "chart_revenue_by_segment", needs |-> {Segment, RevenueINR}],
       [kind |-> "chart_battery_vs_range",
        needs |-> {BatterykWh, Rangekm, RevenueINR, Segment, Manufacturer, Model}],
       [kind |-> "chart_profit_by_manufacturer", needs |-> {Manufacturer, ProfitINR}],
       [kind |-> "raw_data", needs |-> {}],
       [kind |-> "download_filtered_csv", needs |-> {}],
       [kind |-> "download_summary_csv",
        needs |-> {RevenueINR, ProfitINR, BatterykWh, Rangekm}] >>

\* reading a column that filtered_df lacks raises KeyError
element_raises(el, d) == \E name \in el.needs : ~has_column(d, name)

ErrorElement == [kind |-> "error_processing_file", data |-> <<>>]

\* no script run: the variables of the dashboard at rest
InitNoRun ==
    /\ file = FALSE
    /\ HAS_ETL = TRUE
    /\ save_db = FALSE
    /\ segment_filter = {}
    /\ manufacturer_filter = {}
    /\ filtered_df = <<>>
    /\ upload_result = "none"
    /\ sidebar = <<>>
    /\ page = <<>>

----------------------------------------------------------------------------
(* Inputs of the processing pass: a file with up to three columns, labelled*)
(* as uploads label them, every column of a dtype and with cells that      *)
(* read_csv can produce.  Labels are distinct, as read_csv makes them.     *)

\* a whole number w, in units of one half
W(w) == Num(2 * w)

NumberCells == {Na, W(10), W(30)}

ObjectCells == {Na, Str("EV")}

Absent == [dtype |-> "absent", vals |-> <<>>]

NumberColumns(r) == {[dtype |-> "number", vals |-> v] : v \in [1..r -> NumberCells]}

ObjectColumns(r) == {[dtype |-> "object", vals |-> v] : v \in [1..r -> ObjectCells]}

AnyColumn(r) == {Absent} \cup NumberColumns(r) \cup ObjectColumns(r)

RawLabels == << <<"P", "r", "o", "f", "i", "t", "I", "N", "R">>,
               <<"r", "e", "v", "e", "n", "u", "e">>,
               <<"C", "o", "s", "t">> >>

\* the dataset of the chosen columns, under the labels of RawLabels
Dataset(choice) ==
    LET present == SelectSeq([i \in 1..Len(choice) |-> i], LAMBDA i : choice[i] # Absent)
    IN  [j \in 1..Len(present) |->
            [name |-> RawLabels[present[j]],
             dtype |-> choice[present[j]].dtype,
             vals |-> choice[present[j]].vals]]

\* the documented example: Revenue = [100, 200] and OperatingCost = [30, 50]
ExampleProfit ==
    << [name |-> RawLabels[2], dtype |-> "number", vals |-> <<W(100), W(200)>>],
       [name |-> RawLabels[3], dtype |-> "number", vals |-> <<W(30), W(50)>>] >>

\* the documented example: a numeric column [10, None, 20, None, 30]
ExampleMedian ==
    << [name |-> RawLabels[2], dtype |-> "number",
        vals |-> <<W(10), Na, W(20), Na, W(30)>>] >>

----------------------------------------------------------------------------
(* The header normalizer applied once and then once more *)

InitMap ==
    /\ df \in MapInputs
    /\ raw = df
    /\ prev = df
    /\ pc = "loaded"
    /\ raised = ""
    /\ InitIdle
    /\ InitNoRun

\* df = map_columns(df)
MapColumns ==
    /\ pc = "loaded"
    /\ prev' = df
    /\ df' = map_columns(df)
    /\ pc' = "mapped"
    /\ UNCHANGED <<raw, raised>>
    /\ UNCHANGED upload_vars
    /\ UNCHANGED dashboard_vars

\* map_columns applied to its own result
MapColumnsAgain ==
    /\ pc = "mapped"
    /\ prev' = df
    /\ df' = map_columns(df)
    /\ pc' = "mapped_twice"
    /\ UNCHANGED <<raw, raised>>
    /\ UNCHANGED upload_vars
    /\ UNCHANGED dashboard_vars

NextMap == MapColumns \/ MapColumnsAgain

SpecMap == InitMap /\ [][NextMap]_vars

----------------------------------------------------------------------------
(* The processing pass of process_data: map_columns, then clean_data *)

InitProcess ==
    /\ \/ \E r \in 0..MaxRows :
             \E p \in AnyColumn(r), rv \in AnyColumn(r), c \in AnyColumn(r) :
                 df = Dataset(<<p, rv, c>>)
       \/ df \in {ExampleProfit, ExampleMedian}
    /\ raw = df
    /\ prev = df
    /\ pc = "loaded"
    /\ raised = ""
    /\ InitIdle
    /\ InitNoRun

\* df = clean_data(df): df is changed in place up to the point of the exception
CleanData ==
    /\ pc = "mapped"
    /\ LET result == clean_data(df)
       IN  /\ df' = result.df
           /\ raised' = result.raised
           /\ pc' = IF result.raised = "" THEN "cleaned" ELSE "failed"
    /\ prev' = df
    /\ UNCHANGED raw
    /\ UNCHANGED upload_vars
    /\ UNCHANGED dashboard_vars

NextProcess == MapColumns \/ CleanData

SpecProcess == InitProcess /\ [][NextProcess]_vars

----------------------------------------------------------------------------
(* Concurrent writers calling upload_to_mysql *)

InitUpload ==
    /\ df = <<>>
    /\ raw = <<>>
    /\ prev = <<>>
    /\ pc = "idle"
    /\ raised = ""
    /\ InitIdle
    /\ InitNoRun

\* a writer calls upload_to_mysql(df) with a dataset of at least one row: the
\* config is read and the engine created
CallUpload(w) ==
    /\ wpc[w] \in {"idle", "done", "failed"}
    /\ ncalls < MaxCalls
    /\ \E n \in 1..MaxUploadRows :
           wdf' = [wdf EXCEPT ![w] = [id |-> ncalls + 1, n |-> n]]
    /\ ncalls' = ncalls + 1
    /\ wpc' = [wpc EXCEPT ![w] = "connected"]
    /\ UNCHANGED <<table, last>>
    /\ UNCHANGED pipeline_vars
    /\ UNCHANGED dashboard_vars

\* STEP 1: DELETE FROM ev_data, committed on its own connection
DeleteOld(w) ==
    /\ wpc[w] = "connected"
    /\ table' = delete_all(table)
    /\ wpc' = [wpc EXCEPT ![w] = "deleted"]
    /\ UNCHANGED <<wdf, ncalls, last>>
    /\ UNCHANGED pipeline_vars
    /\ UNCHANGED dashboard_vars

\* STEP 2: df.to_sql appends the rows, then upload_to_mysql returns
InsertNew(w) ==
    /\ wpc[w] = "deleted"
    /\ table' = to_sql(table, wdf[w])
    /\ last' = wdf[w]
    /\ wpc' = [wpc EXCEPT ![w] = "done"]
    /\ UNCHANGED <<wdf, ncalls>>
    /\ UNCHANGED pipeline_vars
    /\ UNCHANGED dashboard_vars

\* the database refuses a statement: the call ends with the exception
UploadRaises(w) ==
    /\ wpc[w] \in {"connected", "deleted"}
    /\ wpc' = [wpc EXCEPT ![w] = "failed"]
    /\ UNCHANGED <<table, wdf, ncalls, last>>
    /\ UNCHANGED pipeline_vars
    /\ UNCHANGED dashboard_vars

NextUpload ==
    \E w \in Writers : CallUpload(w) \/ DeleteOld(w) \/ InsertNew(w) \/ UploadRaises(w)

SpecUpload == InitUpload /\ [][NextUpload]_vars

----------------------------------------------------------------------------
(* One run of the dashboard script on an uploaded file of two rows.  Every *)
(* column the dashboard reads may be absent from the file; the Segment     *)
(* column may have a missing cell, and the manufacturer column may be      *)
(* labelled "brand".                                                      *)

SegmentColumns ==
    {Absent,
     [name |-> Segment, dtype |-> "object", vals |-> <<Str("SUV"), Str("Sedan")>>],
     [name |-> Segment, dtype |-> "object", vals |-> <<Na, Str("Sedan")>>]}

ManufacturerColumns ==
    {Absent,
     [name |-> Manufacturer, dtype |-> "object", vals |-> <<Str("Tata"), Str("MG")>>],
     [name |-> <<"b", "r", "a", "n", "d">>, dtype |-> "object", vals |-> <<Str("Tata"), Str("MG")>>]}

ModelColumn == [name |-> Model, dtype |-> "object", vals |-> <<Str("Nexon"), Str("ZS")>>]

BatteryColumns ==
    {Absent, [name |-> BatterykWh, dtype |-> "number", vals |-> <<W(30), W(50)>>]}

RangeColumn == [name |-> Rangekm, dtype |-> "number", vals |-> <<W(300), W(400)>>]

RevenueColumns ==
    {Absent, [name |-> RevenueINR, dtype |-> "number", vals |-> <<W(100), W(200)>>]}

CostColumns ==
    {Absent, [name |-> OperatingCostINR, dtype |-> "number", vals |-> <<W(30), W(50)>>]}

\* the file's columns, in order, without the absent ones
UploadedFile(choice) == SelectSeq(choice, LAMBDA c : c # Absent)

\* the rows already in ev_data when the run starts
OldUpload == [id |-> 0, n |-> 1]

\* the upload this run makes
ThisUpload(d) == [id |-> 1, n |-> nrows(d)]

InitDashboard ==
    /\ file \in BOOLEAN
    /\ HAS_ETL \in BOOLEAN
    /\ save_db \in BOOLEAN
    /\ IF file
       THEN \E seg \in SegmentColumns, man \in ManufacturerColumns,
               bat \in BatteryColumns, rev \in RevenueColumns, cost \in CostColumns :
                df = UploadedFile(<<seg, man, ModelColumn, bat, RangeColumn, rev, cost>>)
       ELSE df = <<>>
    /\ raw = df
    /\ prev = df
    /\ pc = "start"
    /\ raised = ""
    /\ table = rows_of(OldUpload)
    /\ wpc = [w \in Writers |-> "idle"]
    /\ wdf = [w \in Writers |-> NoDataset]
    /\ ncalls = 0
    /\ last = OldUpload
    /\ segment_filter = {}
    /\ manufacturer_filter = {}
    /\ filtered_df = <<>>
    /\ upload_result = "none"
    /\ sidebar = <<>>
    /\ page = <<>>

\* else branch of "if file": the "Get Started" panel
ShowWelcome ==
    /\ pc = "start"
    /\ ~file
    /\ page' = Append(page, [kind |-> "get_started", data |-> <<>>])
    /\ pc' = "done"
    /\ UNCHANGED <<df, raw, prev, raised, file, HAS_ETL, save_db, segment_filter,
                   manufacturer_filter, filtered_df, upload_result, sidebar>>
    /\ UNCHANGED upload_vars

\* df = process_data(df)
ProcessData ==
    /\ pc = "start"
    /\ file
    /\ LET result == process_data(df, HAS_ETL)
       IN  /\ df' = result.df
           /\ raised' = result.raised
           /\ pc' = IF result.raised = "" THEN "processed" ELSE "except"
    /\ prev' = df
    /\ UNCHANGED raw
    /\ UNCHANGED upload_vars
    /\ UNCHANGED dashboard_vars

\* the two multiselects, with the user's selection, and the filtering
FilterSetup ==
    /\ pc = "processed"
    /\ IF filter_setup_raises(df)
       THEN /\ raised' = "KeyError"
            /\ pc' = "except"
            /\ UNCHANGED <<segment_filter, manufacturer_filter, filtered_df>>
       ELSE /\ \E seg \in SUBSET unique(df, Segment), man \in SUBSET unique(df, Manufacturer) :
                   /\ segment_filter' = seg
                   /\ manufacturer_filter' = man
                   /\ filtered_df' = apply_filters(df, seg, man)
            /\ pc' = "filtered"
            /\ UNCHANGED raised
    /\ UNCHANGED <<df, raw, prev, file, HAS_ETL, save_db, upload_result, sidebar, page>>
    /\ UNCHANGED upload_vars

\* if save_db: upload_to_mysql(filtered_df) inside try/except, or the info message
SaveDb ==
    /\ pc = "filtered"
    /\ IF save_db /\ HAS_ETL
       THEN \E outcome \in {"ok", "connect", "insert"} :
               LET result == upload_to_mysql(table, ThisUpload(filtered_df), outcome)
                   handled == save_handler(HAS_ETL, result.raised)
               IN  /\ table' = result.table
                   /\ last' = IF outcome = "ok" THEN ThisUpload(filtered_df) ELSE last
                   /\ upload_result' = IF result.raised = "" THEN "ok" ELSE "raised"
                   /\ sidebar' = Append(sidebar, handled.message)
                   /\ raised' = handled.raised
                   /\ pc' = IF handled.raised = "" THEN "render" ELSE "except"
       ELSE /\ sidebar' = IF save_db
                          THEN Append(sidebar, save_handler(HAS_ETL, "").message)
                          ELSE sidebar
            /\ pc' = "render"
            /\ UNCHANGED <<table, last, upload_result, raised>>
    /\ UNCHANGED <<df, raw, prev, wpc, wdf, ncalls, file, HAS_ETL, save_db, segment_filter,
                   manufacturer_filter, filtered_df, page>>

\* the next metric card, chart, table or download of the page
RenderElement ==
    /\ pc = "render"
    /\ LET el == Elements[Len(page) + 1]
       IN  IF element_raises(el, filtered_df)
           THEN /\ raised' = "KeyError"
                /\ pc' = "except"
                /\ UNCHANGED page
           ELSE /\ page' = Append(page, [kind |-> el.kind, data |-> filtered_df])
                /\ pc' = IF Len(page) + 1 = Len(Elements) THEN "done" ELSE "render"
                /\ UNCHANGED raised
    /\ UNCHANGED <<df, raw, prev, file, HAS_ETL, save_db, segment_filter,
                   manufacturer_filter, filtered_df, upload_result, sidebar>>
    /\ UNCHANGED upload_vars

\* except Exception as e: st.error(...) and the list of required columns
ExceptHandler ==
    /\ pc = "except"
    /\ page' = Append(page, ErrorElement)
    /\ pc' = "done"
    /\ UNCHANGED <<df, raw, prev, raised, file, HAS_ETL, save_db, segment_filter,
                   manufacturer_filter, filtered_df, upload_result, sidebar>>
    /\ UNCHANGED upload_vars

NextDashboard ==
    ShowWelcome \/ ProcessData \/ FilterSetup \/ SaveDb \/ RenderElement \/ ExceptHandler

SpecDashboard == InitDashboard /\ [][NextDashboard]_vars

----------------------------------------------------------------------------
(* Claims about the header normalizer (SpecMap) *)

\* a label is a recognized synonym when it equals a key of the synonym table
\* up to casing, spaces and underscores
Recognized(name) == \E i \in 1..Len(mapping) : key_of(mapping[i][1]) = key_of(name)

DocumentedName(name) ==
    mapping[CHOOSE i \in 1..Len(mapping) : key_of(mapping[i][1]) = key_of(name)][2]

\* C1: after map_columns every column whose label is a recognized synonym, in any
\* casing and with any spaces or underscores, carries the canonical name the table
\* documents for it, and every other column keeps its label.
C1_SynonymsRenamed ==
    pc = "mapped" =>
        \A i \in 1..Len(df) :
            df[i].name = IF Recognized(raw[i].name)
                         THEN DocumentedName(raw[i].name)
                         ELSE raw[i].name

\* C6: map_columns applied to its own result changes no label.
C6_Idempotent == pc = "mapped_twice" => columns(df) = columns(prev)

\* the second application ran on a dataset whose labels the first one had changed
C6_Witness == pc = "mapped_twice" /\ columns(prev) # columns(raw)

\* the normalized key of a label is found in the synonym table
Found(name) ==
    LET key == key_of(name)
    IN  \E i \in 1..Len(mapping) : mapping[i][1] = key

\* the canonical name the table gives for the normalized key of a label
Target(name) ==
    LET key == key_of(name)
    IN  mapping[CHOOSE i \in 1..Len(mapping) : mapping[i][1] = key][2]

\* columns i < j of the loaded dataset have different labels whose normalized keys
\* map to the same canonical name
Collide(i, j) ==
    /\ i < j
    /\ raw[i].name # raw[j].name
    /\ Found(raw[i].name)
    /\ Found(raw[j].name)
    /\ Target(raw[i].name) = Target(raw[j].name)

\* C11 as stated: of two columns whose normalized keys map to the same canonical
\* name the later one wins: after map_columns exactly one column carries the
\* canonical name, and it is the later column.
C11_Original ==
    pc = "mapped" =>
        \A i \in 1..Len(raw), j \in 1..Len(raw) :
            Collide(i, j) =>
                LET carriers == {k \in 1..Len(df) : df[k].name = Target(raw[j].name)}
                IN  /\ Cardinality(carriers) = 1
                    /\ \A k \in carriers : df[k].vals # raw[i].vals

\* C11 amended: of two columns whose normalized keys map to the same canonical
\* name both are renamed: after map_columns each of them carries the canonical
\* name at its own position with its own cells, no column is dropped, and the
\* result has at least two columns with that name.
C11_BothRenamed ==
    pc = "mapped" =>
        \A i \in 1..Len(raw), j \in 1..Len(raw) :
            Collide(i, j) =>
                /\ Len(df) = Len(raw)
                /\ df[i].name = Target(raw[i].name)
                /\ df[j].name = Target(raw[j].name)
                /\ df[i].vals = raw[i].vals
                /\ df[j].vals = raw[j].vals
                /\ Cardinality({k \in 1..Len(df) : df[k].name = Target(raw[j].name)}) >= 2

\* map_columns ran on a dataset with the columns "brand" and "manufacturer", and
\* both carry "Manufacturer" afterwards
C11_Witness ==
    /\ pc = "mapped"
    /\ Len(raw) = 2
    /\ raw[1].name = <<"b", "r", "a", "n", "d">>
    /\ raw[2].name = <<"m", "a", "n", "u", "f", "a", "c", "t", "u", "r", "e", "r">>
    /\ df[1].name = Manufacturer
    /\ df[2].name = Manufacturer

----------------------------------------------------------------------------
(* Claims about the data cleaner and the processing pass (SpecProcess).    *)
(* When pc is "cleaned" or "failed", prev is the dataset clean_data was    *)
(* given and df the dataset it left.                                       *)

\* the dataset has a RevenueINR and an OperatingCostINR column
HasBoth(d) == has_column(d, RevenueINR) /\ has_column(d, OperatingCostINR)

\* the ProfitINR column of a dataset that has both profit inputs is replaced
Replaced(d, name) == name = ProfitINR /\ HasBoth(d)

\* C2: after clean_data returns no numerical column has a missing value, and every
\* cell that was missing in a numerical column (one that clean_data does not
\* replace) equals the median of the column's values before the fill, also when
\* all values of the column were missing.
C2_NumbersFilled ==
    pc = "cleaned" =>
        /\ \A i \in 1..Len(df) :
               df[i].dtype = "number" => \A j \in 1..Len(df[i].vals) : ~isna(df[i].vals[j])
        /\ \A i \in 1..Len(prev) :
               (prev[i].dtype = "number" /\ ~Replaced(prev, prev[i].name)) =>
                   \A j \in 1..Len(prev[i].vals) :
                       isna(prev[i].vals[j]) =>
                           /\ ~isna(median(prev[i].vals))
                           /\ get_column(df, prev[i].name).vals[j] = median(prev[i].vals)

\* C3 as stated: after clean_data returns no textual column has a missing value and
\* every cell that was missing in a textual column equals "Unknown".
C3_Original ==
    pc = "cleaned" =>
        /\ \A i \in 1..Len(df) :
               df[i].dtype = "object" => \A j \in 1..Len(df[i].vals) : ~isna(df[i].vals[j])
        /\ \A i \in 1..Len(prev) :
               prev[i].dtype = "object" =>
                   \A j \in 1..Len(prev[i].vals) :
                       isna(prev[i].vals[j]) =>
                           get_column(df, prev[i].name).vals[j] = Str("Unknown")

\* C3 amended: after clean_data returns no textual column has a missing value and
\* every cell that was missing in a textual column equals "Unknown", except in a
\* ProfitINR column that clean_data replaces by the derived profit.
C3_TextFilled ==
    pc = "cleaned" =>
        /\ \A i \in 1..Len(df) :
               df[i].dtype = "object" => \A j \in 1..Len(df[i].vals) : ~isna(df[i].vals[j])
        /\ \A i \in 1..Len(prev) :
               (prev[i].dtype = "object" /\ ~Replaced(prev, prev[i].name)) =>
                   \A j \in 1..Len(prev[i].vals) :
                       isna(prev[i].vals[j]) =>
                           get_column(df, prev[i].name).vals[j] = Str("Unknown")

\* clean_data returned for a dataset with a missing cell in a textual column
C3_Witness ==
    /\ pc = "cleaned"
    /\ \E i \in 1..Len(prev) :
           /\ prev[i].dtype = "object"
           /\ ~Replaced(prev, prev[i].name)
           /\ \E j \in 1..Len(prev[i].vals) :
                  /\ isna(prev[i].vals[j])
                  /\ get_column(df, prev[i].name).vals[j] = Str("Unknown")

\* row by row, profit = revenue - cost (missing when either is missing)
ProfitIsDifference(d) ==
    /\ has_column(d, ProfitINR)
    /\ LET rev == get_column(d, RevenueINR).vals
           cost == get_column(d, OperatingCostINR).vals
           profit == get_column(d, ProfitINR).vals
       IN  /\ Len(profit) = Len(rev)
           /\ \A j \in 1..Len(profit) :
                  profit[j] = IF isna(rev[j]) \/ isna(cost[j])
                              THEN Na
                              ELSE Num(rev[j].n - cost[j].n)

\* C4 as stated: whenever the dataset has a RevenueINR and an OperatingCostINR
\* column, clean_data returns a dataset whose ProfitINR is, in every row, the
\* filled RevenueINR minus the filled OperatingCostINR.
C4_Original ==
    (pc \in {"cleaned", "failed"} /\ HasBoth(prev)) =>
        (pc = "cleaned" /\ ProfitIsDifference(df))

\* C4 amended: when the dataset has a RevenueINR and an OperatingCostINR column and
\* both are numerical, clean_data returns a dataset whose ProfitINR is, in every
\* row, the filled RevenueINR minus the filled OperatingCostINR, replacing any
\* ProfitINR the input carried; Revenue [100, 200] and OperatingCost [30, 50]
\* give Profit [70, 150].
C4_ProfitOfNumbers ==
    /\ (/\ pc \in {"cleaned", "failed"}
        /\ HasBoth(prev)
        /\ get_column(prev, RevenueINR).dtype = "number"
        /\ get_column(prev, OperatingCostINR).dtype = "number") =>
           /\ pc = "cleaned"
           /\ ProfitIsDifference(df)
           /\ Len(df) = IF has_column(prev, ProfitINR) THEN Len(prev) ELSE Len(prev) + 1
           /\ \A j \in 1..Len(get_column(prev, RevenueINR).vals) :
                  /\ ~isna(get_column(prev, RevenueINR).vals[j]) =>
                         get_column(df, RevenueINR).vals[j] = get_column(prev, RevenueINR).vals[j]
                  /\ ~isna(get_column(prev, OperatingCostINR).vals[j]) =>
                         get_column(df, OperatingCostINR).vals[j]
                             = get_column(prev, OperatingCostINR).vals[j]
    /\ (pc = "cleaned" /\ raw = ExampleProfit) =>
           get_column(df, ProfitINR).vals = <<W(70), W(150)>>

\* clean_data replaced the ProfitINR column the input carried by a different one
C4_Witness ==
    /\ pc = "cleaned"
    /\ HasBoth(prev)
    /\ has_column(prev, ProfitINR)
    /\ get_column(prev, ProfitINR) # get_column(df, ProfitINR)
    /\ \E j \in 1..Len(get_column(df, ProfitINR).vals) :
           /\ get_column(df, ProfitINR).vals[j].k = "num"
           /\ get_column(df, ProfitINR).vals[j].n # 0

\* C5: when the dataset lacks RevenueINR or lacks OperatingCostINR, clean_data
\* returns without raising, with the columns of its input and no new ProfitINR.
C5_NoProfitWithoutInputs ==
    (pc \in {"cleaned", "failed"} /\ ~HasBoth(prev)) =>
        /\ pc = "cleaned"
        /\ raised = ""
        /\ {df[i].name : i \in 1..Len(df)} = {prev[i].name : i \in 1..Len(prev)}
        /\ Len(df) = Len(prev)
        /\ has_column(df, ProfitINR) <=> has_column(prev, ProfitINR)

\* clean_data returned for a dataset with RevenueINR and without OperatingCostINR
C5_Witness ==
    /\ pc = "cleaned"
    /\ has_column(prev, RevenueINR)
    /\ ~has_column(prev, OperatingCostINR)
    /\ ~has_column(df, ProfitINR)

\* C8: a processing pass that raises has applied none of its renames or fills:
\* the dataset is as it was loaded.
C8_AllOrNothing == pc = "failed" => df = raw

----------------------------------------------------------------------------
(* Claim about the uploader (SpecUpload) *)

\* C7: once every writer's call of upload_to_mysql has returned, the table holds
\* exactly the rows of one uploaded dataset, the last one inserted, whatever the
\* interleaving of the writers' DELETE and INSERT statements was.
C7_FullReplace ==
    (\A w \in Writers : wpc[w] = "done") => table = rows_of(last)

----------------------------------------------------------------------------
(* Claims about the dashboard run (SpecDashboard) *)

\* the page of a run that renders from d: the elements up to the first one that
\* reads a column d lacks, and then the error
ExpectedPage(d) ==
    LET n == CHOOSE m \in 0..Len(Elements) :
                 /\ \A i \in 1..m : ~element_raises(Elements[i], d)
                 /\ m < Len(Elements) => element_raises(Elements[m + 1], d)
    IN  [i \in 1..n |-> [kind |-> Elements[i].kind, data |-> d]]
            \o (IF n < Len(Elements) THEN <<ErrorElement>> ELSE <<>>)

\* C9: when upload_to_mysql raises during a save, the failure is reported in the
\* sidebar, the filtered dataset is the one the filters selected, and the run goes
\* on to render the metrics, charts and exports from it as a run without the save.
C9_SaveFailureKeepsDashboard ==
    (pc = "done" /\ upload_result = "raised") =>
        /\ \E i \in 1..Len(sidebar) : sidebar[i] = "upload_error"
        /\ filtered_df = apply_filters(df, segment_filter, manufacturer_filter)
        /\ page = ExpectedPage(filtered_df)

\* a run whose save raised and that rendered the whole page from rows it selected
C9_Witness ==
    /\ pc = "done"
    /\ upload_result = "raised"
    /\ Len(page) = Len(Elements)
    /\ page[Len(page)].kind = "download_summary_csv"
    /\ nrows(page[1].data) > 0

\* C10: when the processed dataset has no Segment column or no Manufacturer
\* column, the run ends with the error shown and with no metric, chart or export
\* rendered.
C10_MissingFilterColumnIsAnError ==
    (pc = "done" /\ file /\ (~has_column(df, Segment) \/ ~has_column(df, Manufacturer))) =>
        /\ \E i \in 1..Len(page) : page[i] = ErrorElement
        /\ \A i \in 1..Len(page) : page[i] = ErrorElement

\* process_data succeeded on a file without a Segment column, and the run ended
\* with the error
C10_Witness ==
    /\ pc = "done"
    /\ HAS_ETL
    /\ raised = "KeyError"
    /\ ~has_column(df, Segment)
    /\ has_column(df, Manufacturer)
    /\ page = <<ErrorElement>>

====
